---- MODULE Spec2Model ----
(***************************************************************************)
(* A model of the map package of new_RPG: the bounded chunk cache          *)
(* (map/chunk_manager.py), the value/Perlin noise generators               *)
(* (map/noise.py) and the world generator (map/world_gen.py).              *)
(*                                                                         *)
(* Numbers: a float is modelled in fixed point, as an integer count of     *)
(* 1/Unit; numpy arrays are modelled as sequences of cells and every       *)
(* elementwise operation is applied cell by cell.                          *)
(* Optional values (Python's None) are sequences of length 0 or 1.         *)
(***************************************************************************)
EXTENDS Integers, Sequences, FiniteSets, TLC

VARIABLES
  max_chunks,   \* ChunkManager.max_chunks
  chunks,       \* ChunkManager.chunks: the OrderedDict, oldest entry first
  last,         \* the most recent call on the manager and what it did
  ret,          \* what the most recent call returned (None unless a get found the chunk)
  sample,       \* the chunk record the caller holds in the codec runs
  promoted,     \* history: key of a get_chunk hit with no mutation since
  uses,         \* history: the cached keys, least recently used first
  streak,       \* history: keys of the add_chunk calls made since the cache was empty
  source,       \* history: key -> the chunk_data last handed to add_chunk for it
  rng,          \* the state of the random module's global generator
  draws,        \* history: how often other code of the process drew from it
  vn,           \* the ValueNoise objects of the process, by name
  wg            \* the WorldGenerator objects of the process, by name

cache_vars == <<max_chunks, chunks, last, ret, sample, promoted, uses, streak, source>>
noise_vars == <<rng, draws, vn, wg>>
vars == <<cache_vars, noise_vars>>

-----------------------------------------------------------------------------
(* Bounds of the model.                                                    *)

\* Largest max_chunks_in_memory a manager is constructed with.
MaxCap == 3

\* Fixed-point resolution: steps between two neighbouring uint8 levels.
SubSteps == 20

\* One, as a fixed-point number: a height h is the integer h * Unit.
Unit == 255 * SubSteps

\* Coordinates of the chunks the caller works with.
Coords == {<<0, 0>>, <<1, 1>>, <<0, 1>>}

None == <<>>
Some(v) == <<v>>

-----------------------------------------------------------------------------
(* collections.OrderedDict, as a sequence of [key, val] entries.           *)

Keys(od) == {od[i].key : i \in 1..Len(od)}

IndexOf(od, k) == CHOOSE i \in 1..Len(od) : od[i].key = k

\* od.get(k): None when the key is absent.
DictGet(od, k) == IF k \in Keys(od) THEN Some(od[IndexOf(od, k)].val) ELSE None

DeleteKey(od, k) == SelectSeq(od, LAMBDA e : e.key # k)

\* popitem(last=True): the mutant of PopOldest, dropping the newest entry.
PopNewest(od) == SubSeq(od, 1, Len(od) - 1)

\* od.popitem(last=False) on a non-empty dict: drops the first (oldest) entry.
PopOldest(od) == Tail(od)

\* The mutant of SetItem: an assignment that re-inserts an existing key at the end.
SetItemAtEnd(od, k, v) == Append(DeleteKey(od, k), [key |-> k, val |-> v])

\* od[k] = v: an existing key keeps its position, a new key goes to the end.
SetItem(od, k, v) ==
  IF k \in Keys(od)
  THEN [od EXCEPT ![IndexOf(od, k)] = [key |-> k, val |-> v]]
  ELSE Append(od, [key |-> k, val |-> v])

\* The mutant of MoveToEnd: a read that leaves the order alone.
MoveToEndNoop(od, k) == od

\* od.move_to_end(k) for a key that is present.
MoveToEnd(od, k) == Append(DeleteKey(od, k), od[IndexOf(od, k)])

-----------------------------------------------------------------------------
(* The codec of add_chunk / get_chunk.                                     *)

\* float -> integer conversion truncates toward zero.
TruncDiv(a, b) == IF a >= 0 THEN a \div b ELSE -((-a) \div b)

\* The integer part of height * 255.
ScaledHeight(h) == TruncDiv(h * 255, Unit)

\* (height * 255).astype(np.uint8) for one cell: the bytes the cast can give.
\* A value in 0..255 is truncated. For a value outside, the C cast behind
\* astype is undefined: builds either wrap it modulo 256 or saturate it.
HeightBytes(h) ==
  LET v == ScaledHeight(h)
  IN IF v \in 0..255 THEN {v}
     ELSE {v % 256, IF v < 0 THEN 0 ELSE 255}

\* water.astype(np.uint8) for one cell.
WaterByte(w) == IF w THEN 1 ELSE 0

\* biome.astype(np.uint8) for one cell; the biome ids are 0..4.
BiomeByte(b) == b % 256

\* The optimized chunks add_chunk may build from chunk_data.
OptimizedChunks(chunk_data) ==
  LET n == Len(chunk_data.height)
  IN { [height |-> hs,
        water  |-> [i \in 1..n |-> WaterByte(chunk_data.water[i])],
        biome  |-> [i \in 1..n |-> BiomeByte(chunk_data.biome[i])]] :
       hs \in { f \in [1..n -> 0..255] :
                  \A i \in 1..n : f[i] \in HeightBytes(chunk_data.height[i]) } }

\* The mutant of DecodeHeight: dividing by 256 instead of 255.
DecodeHeightBy256(q) == [num |-> q * Unit, den |-> 256]

\* byte.astype(np.float32) / 255.0 for one cell, as the fraction num/den of
\* fixed-point units (q * Unit / 255 need not be a whole number of units).
DecodeHeight(q) == [num |-> q * Unit, den |-> 255]

\* byte.astype(bool) for one cell.
DecodeWater(q) == q # 0

\* The record get_chunk returns for a stored chunk.
Decoded(chunk) ==
  LET n == Len(chunk.height)
  IN [height |-> [i \in 1..n |-> DecodeHeight(chunk.height[i])],
      water  |-> [i \in 1..n |-> DecodeWater(chunk.water[i])],
      biome  |-> chunk.biome]

-----------------------------------------------------------------------------
(* History kept beside the manager, for stating the claims.                *)

Call(op, key, data, evicted, raised, after_hit) ==
  [op |-> op, key |-> key, data |-> data, evicted |-> evicted,
   raised |-> raised, after_hit |-> after_hit]

\* Least-recently-used order when every add_chunk and every get_chunk hit is a use.
Touch(order, k) == Append(SelectSeq(order, LAMBDA c : c # k), k)
Forget(order, k) == SelectSeq(order, LAMBDA c : c # k)

Restrict(f, S) == [k \in S |-> f[k]]

\* The keys added since the cache was last empty, while only add_chunk ran.
StreakAfterAdd(k) ==
  IF streak.ok /\ k \notin {streak.keys[i] : i \in 1..Len(streak.keys)}
     /\ Len(streak.keys) <= max_chunks
  THEN [ok |-> TRUE, keys |-> Append(streak.keys, k)]
  ELSE [ok |-> FALSE, keys |-> <<>>]

StreakAfter(od) ==
  IF od = <<>> THEN [ok |-> TRUE, keys |-> <<>>] ELSE [ok |-> FALSE, keys |-> <<>>]

-----------------------------------------------------------------------------
(* ChunkManager.                                                           *)

\* The chunk records the callers of the cache runs store.
OrderInputs ==
  { [height |-> <<Unit \div 2>>, water |-> <<FALSE>>, biome |-> <<2>>],
    [height |-> <<Unit \div 5>>, water |-> <<TRUE>>,  biome |-> <<0>>] }

\* The cache runs build no noise generator.
NoNoise ==
  /\ rng = 0
  /\ draws = 0
  /\ vn = <<>>
  /\ wg = <<>>

\* __init__: any integer is accepted as max_chunks_in_memory; no chunk is stored.
Init ==
  /\ max_chunks \in -1..MaxCap
  /\ chunks = <<>>
  /\ last = Call("__init__", None, None, None, "none", None)
  /\ ret = None
  /\ sample = None
  /\ promoted = None
  /\ uses = <<>>
  /\ streak = [ok |-> TRUE, keys |-> <<>>]
  /\ source = <<>>
  /\ NoNoise

\* The mutant of EvictionDue: evicting only once the limit is exceeded.
EvictionDueLate(n, cap) == n > cap

\* len(self.chunks) >= self.max_chunks
EvictionDue(n, cap) == n >= cap

\* add_chunk(x, y, chunk_data)
AddChunk(x, y, chunk_data) ==
  \E optimized \in OptimizedChunks(chunk_data) :
    LET k == <<x, y>>
        due == EvictionDue(Len(chunks), max_chunks) IN
    /\ ret' = None
    /\ UNCHANGED <<max_chunks, sample, noise_vars>>
    /\ promoted' = None
    /\ IF due /\ chunks = <<>>
       THEN \* popitem on an empty OrderedDict raises KeyError
            /\ chunks' = chunks
            /\ last' = Call("add_chunk", Some(k), Some(chunk_data), None, "KeyError", promoted)
            /\ UNCHANGED <<uses, streak, source>>
       ELSE LET kept == IF due THEN PopOldest(chunks) ELSE chunks
                gone == IF due THEN Some(chunks[1].key) ELSE None
                used == IF due THEN Forget(uses, chunks[1].key) ELSE uses
            IN /\ chunks' = SetItem(kept, k, optimized)
               /\ last' = Call("add_chunk", Some(k), Some(chunk_data), gone, "none", promoted)
               /\ uses' = Touch(used, k)
               /\ streak' = StreakAfterAdd(k)
               /\ source' = [c \in Keys(chunks') |->
                               IF c = k THEN chunk_data ELSE source[c]]

\* get_chunk(x, y)
GetChunk(x, y) ==
  LET k == <<x, y>>
      chunk == DictGet(chunks, k) IN
  /\ UNCHANGED <<max_chunks, sample, source, noise_vars>>
  /\ last' = Call("get_chunk", Some(k), None, None, "none", None)
  /\ IF chunk = None
     THEN /\ ret' = None
          /\ UNCHANGED <<chunks, promoted, uses>>
          /\ streak' = StreakAfter(chunks)
     ELSE /\ chunks' = MoveToEnd(chunks, k)
          /\ ret' = Some(Decoded(chunk[1]))
          /\ promoted' = Some(k)
          /\ uses' = Touch(uses, k)
          /\ streak' = [ok |-> FALSE, keys |-> <<>>]

\* get_chunk_raw(x, y)
GetChunkRaw(x, y) ==
  /\ ret' = DictGet(chunks, <<x, y>>)
  /\ last' = Call("get_chunk_raw", Some(<<x, y>>), None, None, "none", None)
  /\ UNCHANGED <<max_chunks, chunks, sample, promoted, uses, streak, source, noise_vars>>

\* remove_chunk(x, y)
RemoveChunk(x, y) ==
  LET k == <<x, y>> IN
  /\ last' = Call("remove_chunk", Some(k), None, None, "none", None)
  /\ ret' = None
  /\ UNCHANGED <<max_chunks, sample, noise_vars>>
  /\ IF k \in Keys(chunks)
     THEN /\ chunks' = DeleteKey(chunks, k)
          /\ promoted' = None
          /\ uses' = Forget(uses, k)
          /\ source' = Restrict(source, Keys(chunks'))
          /\ streak' = StreakAfter(chunks')
     ELSE UNCHANGED <<chunks, promoted, uses, source, streak>>

\* clear()
Clear ==
  /\ chunks' = <<>>
  /\ last' = Call("clear", None, None, None, "none", None)
  /\ promoted' = IF chunks = <<>> THEN promoted ELSE None
  /\ uses' = <<>>
  /\ source' = <<>>
  /\ streak' = [ok |-> TRUE, keys |-> <<>>]
  /\ ret' = None
  /\ UNCHANGED <<max_chunks, sample, noise_vars>>

Next ==
  \/ \E c \in Coords : \E d \in OrderInputs : AddChunk(c[1], c[2], d)
  \/ \E c \in Coords : GetChunk(c[1], c[2])
  \/ \E c \in Coords : GetChunkRaw(c[1], c[2])
  \/ \E c \in Coords : RemoveChunk(c[1], c[2])
  \/ Clear

Spec == Init /\ [][Next]_vars

-----------------------------------------------------------------------------
(* The codec runs: one chunk record, drawn at the start, is stored in a     *)
(* cache of capacity 1 and read back. The record's height runs over every  *)
(* fixed-point height between -2/255 and 258/255; its water and biome      *)
(* values run over all ten pairs as the height runs over ten neighbours.   *)

CodecHeights == (-2 * SubSteps) .. (258 * SubSteps)

CodecInputs ==
  { [height |-> <<h>>, water |-> <<h % 2 = 1>>, biome |-> <<h % 5>>] :
      h \in CodecHeights }

CodecCoords == {<<0, 0>>}

InitCodec ==
  /\ max_chunks = 1
  /\ chunks = <<>>
  /\ last = Call("__init__", None, None, None, "none", None)
  /\ ret = None
  /\ sample \in {Some(d) : d \in CodecInputs}
  /\ promoted = None
  /\ uses = <<>>
  /\ streak = [ok |-> TRUE, keys |-> <<>>]
  /\ source = <<>>
  /\ NoNoise

NextCodec ==
  \/ \E c \in CodecCoords : AddChunk(c[1], c[2], sample[1])
  \/ \E c \in CodecCoords : GetChunk(c[1], c[2])
  \/ \E c \in CodecCoords : GetChunkRaw(c[1], c[2])
  \/ \E c \in CodecCoords : RemoveChunk(c[1], c[2])
  \/ Clear

SpecCodec == InitCodec /\ [][NextCodec]_vars

-----------------------------------------------------------------------------
(* Claims about ChunkManager.                                              *)

Abs(n) == IF n < 0 THEN -n ELSE n

KeySeq(od) == [i \in 1..Len(od) |-> od[i].key]

\* C1: a manager constructed with max_chunks_in_memory = C >= 1 never holds
\* more than C chunks, whatever calls were made on it.
C1_StoredChunksBounded == max_chunks >= 1 => Len(chunks) <= max_chunks

\* C1 witness: a full cache just after an add_chunk that had to evict.
C1_FullAfterEviction ==
  /\ max_chunks >= 1
  /\ Len(chunks) = max_chunks
  /\ last.op = "add_chunk"
  /\ last.evicted # None

\* C2: after C+1 add_chunk calls of pairwise distinct coordinates on an empty
\* cache of capacity C >= 1, with no get_chunk, remove_chunk or clear among
\* them, exactly C chunks are stored: all of them but the one added first,
\* for which get_chunk finds nothing.
C2_FirstAddedIsEvicted ==
  (max_chunks >= 1 /\ streak.ok /\ Len(streak.keys) = max_chunks + 1) =>
    /\ Len(chunks) = max_chunks
    /\ Keys(chunks) = {streak.keys[i] : i \in 2..(max_chunks + 1)}
    /\ DictGet(chunks, streak.keys[1]) = None
    /\ \A i \in 2..(max_chunks + 1) : DictGet(chunks, streak.keys[i]) # None

\* C2 witness: capacity 1, add_chunk(0,0) then add_chunk(1,1).
C2_TwoAddsIntoCapacityOne ==
  /\ max_chunks = 1
  /\ streak.ok
  /\ streak.keys = <<(<<0, 0>>), (<<1, 1>>)>>
  /\ last.op = "add_chunk"

\* C3: in a full cache of capacity >= 2, when get_chunk(c) has hit and the
\* next mutating call is add_chunk of a coordinate that is not cached, c is
\* still cached afterwards and the entry evicted is the oldest entry of the
\* eviction order, which is not c.
C3_ReadEntrySurvivesNextInsert ==
  [][ \A c \in Coords :
        ( /\ max_chunks >= 2
          /\ Len(chunks) = max_chunks
          /\ promoted = Some(c)
          /\ last'.op = "add_chunk"
          /\ last'.key[1] \notin Keys(chunks) )
        => /\ c \in Keys(chunks')
           /\ chunks[1].key # c
           /\ last'.evicted = Some(chunks[1].key)
           /\ Keys(chunks') = (Keys(chunks) \ {chunks[1].key}) \cup {last'.key[1]} ]_vars

\* C3 witness: an add_chunk of a new coordinate evicted an entry right after
\* a get_chunk hit, and the entry that was read is still cached.
C3_InsertAfterHitEvictedAnother ==
  /\ max_chunks >= 2
  /\ last.op = "add_chunk"
  /\ last.after_hit # None
  /\ last.evicted # None
  /\ last.evicted # last.key
  /\ Len(chunks) = max_chunks
  /\ last.after_hit[1] \in Keys(chunks)

\* C4: whenever add_chunk evicts, the evicted entry is the least recently
\* used one, a use being any add_chunk of the coordinate (insertion or
\* overwrite) or any get_chunk hit, and not a get_chunk_raw.
C4_EvictsLeastRecentlyUsed ==
  [][ (last'.op = "add_chunk" /\ last'.evicted # None)
        => last'.evicted = Some(uses[1]) ]_vars

C6_RoundTripWithinTolerance ==
  (last.op = "get_chunk" /\ ret # None) =>
    LET src == source[last.key[1]]
        out == ret[1] IN
    \A i \in 1..Len(src.height) :
      /\ src.height[i] \in 0..Unit =>
           Abs(src.height[i] * out.height[i].den - out.height[i].num) * 255
             <= out.height[i].den * Unit
      /\ out.water[i] = src.water[i]
      /\ out.biome[i] = src.biome[i]

\* C6 witness: a chunk with a height strictly between two byte levels, water
\* set and biome 4 was stored and read back.
C6_LossyHeightReadBack ==
  /\ last.op = "get_chunk"
  /\ ret # None
  /\ LET src == source[last.key[1]] IN
       /\ src.height[1] \in 1..(Unit - 1)
       /\ src.height[1] % SubSteps # 0
       /\ src.water[1]
       /\ src.biome[1] = 4
       /\ ret[1].water[1]
       /\ ret[1].biome[1] = 4

\* C7: no manager with max_chunks_in_memory <= 0 exists (construction fails),
\* so add_chunk is never called on one.
C7_NonPositiveCapacityRejected == ~(max_chunks <= 0 /\ last.op = "add_chunk")

\* C8: add_chunk clamps out-of-range heights: a stored height below 0 has
\* byte 0 and a stored height above 1 has byte 255.
C8_OutOfRangeHeightsClamp ==
  \A i \in 1..Len(chunks) :
    LET src == source[chunks[i].key] IN
    \A j \in 1..Len(src.height) :
      /\ src.height[j] < 0 => chunks[i].val.height[j] = 0
      /\ src.height[j] > Unit => chunks[i].val.height[j] = 255

-----------------------------------------------------------------------------
(* Python's random module: one generator shared by the whole process.      *)
(* Its Mersenne Twister is replaced by a small congruential generator:     *)
(* what is kept is that seed(s) puts the generator in a state fixed by s,  *)
(* and that every draw returns a value fixed by the state and advances it. *)

RngMod == 65536

RngStep(s) == (25173 * s + 13849) % RngMod

\* random.seed(s) for an integer s: the state it leaves.
SeedState(s) == (40503 * s + 11) % RngMod

\* random.seed(None) seeds from the clock or the OS: the states it may leave.
EntropyStates == {SeedState(101), SeedState(202)}

\* The value random.random() returns when it leaves state s: a float in [0, 1).
RandomValue(s) == (s * Unit) \div RngMod

\* The index below n a shuffle step draws when it leaves state s.
RandBelow(s, n) == (s * n) \div RngMod

\* Other code of the process draws from the generator at most this often.
MaxDraws == 1

\* Any code of the process calling random.random().
RandomDraw ==
  /\ draws < MaxDraws
  /\ draws' = draws + 1
  /\ rng' = RngStep(rng)
  /\ UNCHANGED <<vn, wg, cache_vars>>

-----------------------------------------------------------------------------
(* ValueNoise.                                                             *)

\* int(x) of a float: truncation toward zero.
TruncInt(x) == TruncDiv(x, Unit)

\* math.floor(x) and math.ceil(x), as Python ints.
FloorInt(x) == x \div Unit
CeilInt(x) == -((-x) \div Unit)

\* A float that equals the integer n.
FromInt(n) == n * Unit

\* The mutant of Lookup: a lattice value is drawn again on every query.
LookupAlwaysDraws(st, ix, iy) ==
  LET s1 == RngStep(st.rng)
      c == <<ix, iy>>
  IN [grid |-> [k \in DOMAIN st.grid \cup {c} |->
                  IF k = c THEN RandomValue(s1) ELSE st.grid[k]],
      rng |-> s1, val |-> RandomValue(s1)]

\* The body of get_value for the lattice point (ix, iy), on st = [grid, rng]:
\* the grid and generator state it leaves and the value it returns.
Lookup(st, ix, iy) ==
  LET c == <<ix, iy>> IN
  IF c \in DOMAIN st.grid
  THEN [grid |-> st.grid, rng |-> st.rng, val |-> st.grid[c]]
  ELSE LET s1 == RngStep(st.rng)
       IN [grid |-> [k \in DOMAIN st.grid \cup {c} |->
                       IF k = c THEN RandomValue(s1) ELSE st.grid[k]],
           rng |-> s1, val |-> RandomValue(s1)]

\* get_value(x, y) for floats x, y
GetValueOf(st, x, y) == Lookup(st, TruncInt(x), TruncInt(y))

\* The lattice points smooth_noise(x, y) asks get_value for, in the order of
\* its calls: four corners, four sides, the centre.
SmoothPoints(x, y) ==
  << <<FloorInt(x), FloorInt(y)>>, <<FloorInt(x), CeilInt(y)>>,
     <<CeilInt(x), FloorInt(y)>>,  <<CeilInt(x), CeilInt(y)>>,
     <<FloorInt(x), TruncInt(y)>>, <<TruncInt(x), FloorInt(y)>>,
     <<CeilInt(x), TruncInt(y)>>,  <<TruncInt(x), CeilInt(y)>>,
     <<TruncInt(x), TruncInt(y)>> >>

RECURSIVE LookupAll(_, _, _, _)
\* The get_value calls for pts[i..], one after the other; vals collects the results.
LookupAll(st, pts, i, vals) ==
  IF i > Len(pts) THEN [grid |-> st.grid, rng |-> st.rng, vals |-> vals]
  ELSE LET r == Lookup(st, pts[i][1], pts[i][2])
       IN LookupAll([grid |-> r.grid, rng |-> r.rng], pts, i + 1, Append(vals, r.val))

\* smooth_noise(x, y): corners / 16 + sides / 8 + center / 4
SmoothNoiseOf(st, x, y) ==
  LET r == LookupAll(st, SmoothPoints(x, y), 1, <<>>)
      v == r.vals
      corners == (v[1] + v[2] + v[3] + v[4]) \div 16
      sides == (v[5] + v[6] + v[7] + v[8]) \div 8
      center == v[9] \div 4
  IN [grid |-> r.grid, rng |-> r.rng, val |-> corners + sides + center]

\* The two ValueNoise objects of a run, the integer seeds they are built
\* with, and the points they are queried at.
NoiseNames == {1, 2}
NoiseSeeds == {0}
QueryPoints ==
  { <<0, 0>>, <<Unit \div 2, (3 * Unit) \div 4>>, <<Unit + Unit \div 4, 0>> }
SmoothedPoints == { <<Unit \div 2, (3 * Unit) \div 4>> }

\* Calls made on one ValueNoise object, at most.
MaxQueries == 2

\* ValueNoise(seed) bound to name i; seed is None or Some(integer).
NewValueNoise(i, seed) ==
  /\ i \notin DOMAIN vn
  /\ \E s \in (IF seed = None THEN EntropyStates ELSE {SeedState(seed[1])}) :
       rng' = s
  /\ vn' = [k \in DOMAIN vn \cup {i} |->
              IF k = i THEN [seed |-> seed, grid |-> <<>>, calls |-> <<>>] ELSE vn[k]]
  /\ UNCHANGED <<draws, wg, cache_vars>>

\* a call of get_value(x, y) on the object named i
GetValue(i, x, y) ==
  /\ i \in DOMAIN vn
  /\ Len(vn[i].calls) < MaxQueries
  /\ LET r == GetValueOf([grid |-> vn[i].grid, rng |-> rng], x, y) IN
       /\ rng' = r.rng
       /\ vn' = [vn EXCEPT ![i] =
                   [seed |-> vn[i].seed, grid |-> r.grid,
                    calls |-> Append(vn[i].calls,
                                [op |-> "get_value", x |-> x, y |-> y, val |-> r.val])]]
  /\ UNCHANGED <<draws, wg, cache_vars>>

\* a call of smooth_noise(x, y) on the object named i
SmoothNoise(i, x, y) ==
  /\ i \in DOMAIN vn
  /\ Len(vn[i].calls) < MaxQueries
  /\ LET r == SmoothNoiseOf([grid |-> vn[i].grid, rng |-> rng], x, y) IN
       /\ rng' = r.rng
       /\ vn' = [vn EXCEPT ![i] =
                   [seed |-> vn[i].seed, grid |-> r.grid,
                    calls |-> Append(vn[i].calls,
                                [op |-> "smooth_noise", x |-> x, y |-> y, val |-> r.val])]]
  /\ UNCHANGED <<draws, wg, cache_vars>>

\* A process that has built no cache and no noise object yet.
InitNoise ==
  /\ rng \in EntropyStates
  /\ draws = 0
  /\ vn = <<>>
  /\ wg = <<>>
  /\ max_chunks = 1
  /\ chunks = <<>>
  /\ last = Call("__init__", None, None, None, "none", None)
  /\ ret = None
  /\ sample = None
  /\ promoted = None
  /\ uses = <<>>
  /\ streak = [ok |-> TRUE, keys |-> <<>>]
  /\ source = <<>>

NextNoise ==
  \/ \E i \in NoiseNames : \E seed \in {None} \cup {Some(n) : n \in NoiseSeeds} :
       NewValueNoise(i, seed)
  \/ \E i \in NoiseNames : \E q \in QueryPoints : GetValue(i, q[1], q[2])
  \/ \E i \in NoiseNames : \E q \in SmoothedPoints : SmoothNoise(i, q[1], q[2])

SpecNoise == InitNoise /\ [][NextNoise]_vars

-----------------------------------------------------------------------------
(* Claims about ValueNoise.                                                *)

OnlyGetValue(calls) == \A n \in 1..Len(calls) : calls[n].op = "get_value"

SameQueries(a, b) ==
  /\ Len(a) = Len(b)
  /\ \A n \in 1..Len(a) : a[n].x = b[n].x /\ a[n].y = b[n].y

\* C9: two ValueNoise objects built with the same integer seed and asked the
\* same sequence of get_value coordinates have returned the same values,
\* however their constructions and queries were interleaved.
C9_SameSeedSameValues ==
  \A i \in DOMAIN vn : \A j \in DOMAIN vn :
    ( /\ vn[i].seed # None
      /\ vn[i].seed = vn[j].seed
      /\ OnlyGetValue(vn[i].calls) /\ OnlyGetValue(vn[j].calls)
      /\ SameQueries(vn[i].calls, vn[j].calls) )
    => \A n \in 1..Len(vn[i].calls) : vn[i].calls[n].val = vn[j].calls[n].val

\* The lattice point a get_value(x, y) call record reads.
LatticeOf(call) == <<TruncInt(call.x), TruncInt(call.y)>>

\* C11: in one ValueNoise object a lattice point that has a value keeps it
\* over every step (a get_value or smooth_noise on this or another object, a
\* construction), and a get_value whose arguments truncate to that point
\* returns that value.
C11_LatticeValueNeverChanges ==
  [][\A i \in DOMAIN vn :
       /\ i \in DOMAIN vn'
       /\ \A c \in DOMAIN vn[i].grid :
            /\ c \in DOMAIN vn'[i].grid
            /\ vn'[i].grid[c] = vn[i].grid[c]
            /\ ( /\ Len(vn'[i].calls) = Len(vn[i].calls) + 1
                 /\ vn'[i].calls[Len(vn'[i].calls)].op = "get_value"
                 /\ LatticeOf(vn'[i].calls[Len(vn'[i].calls)]) = c )
               => vn'[i].calls[Len(vn'[i].calls)].val = vn[i].grid[c]]_vars

\* C11 (witness): smooth_noise gave the point (0, 0) its value and then
\* queried other points; a later get_value that truncates to (0, 0) returned
\* the value the point still has.
C11_ReadAgainAfterOtherQueries ==
  \E i \in DOMAIN vn :
    /\ Len(vn[i].calls) = 2
    /\ vn[i].calls[1].op = "smooth_noise"
    /\ vn[i].calls[2].op = "get_value"
    /\ LatticeOf(vn[i].calls[2]) = <<0, 0>>
    /\ Cardinality(DOMAIN vn[i].grid) > 1
    /\ vn[i].calls[2].val = vn[i].grid[<<0, 0>>]

-----------------------------------------------------------------------------
(* PerlinNoise.                                                            *)

\* Entries of the permutation table before it is doubled.
TableSize == 256

\* One step of random.shuffle's loop, at index i (indices from 0):
\* j = randbelow(i + 1), then x[i], x[j] = x[j], x[i].
ShuffleStep(st, i) ==
  LET s1 == RngStep(st.rng)
      j == RandBelow(s1, i + 1)
  IN [list |-> [st.list EXCEPT ![i + 1] = st.list[j + 1], ![j + 1] = st.list[i + 1]],
      rng |-> s1]

RECURSIVE ShuffleSteps(_, _, _)
\* The steps of random.shuffle's loop for i = hi down to lo, in that order
\* (the upper half is run first, then the lower half on its result).
ShuffleSteps(st, hi, lo) ==
  IF hi < lo THEN st
  ELSE IF hi = lo THEN ShuffleStep(st, hi)
  ELSE LET mid == (hi + lo) \div 2
           upper == ShuffleSteps(st, hi, mid + 1)
       IN IF upper.rng >= 0 THEN ShuffleSteps(upper, mid, lo) ELSE upper

\* PerlinNoise.__init__ run with the global generator in state s: the doubled
\* permutation table and the state the shuffle leaves.
PerlinTable(s) ==
  LET r == ShuffleSteps([list |-> [n \in 1..TableSize |-> n - 1], rng |-> s],
                        TableSize - 1, 1)
  IN [permutation |-> r.list \o r.list, rng |-> r.rng]

\* The product of two fixed-point numbers, and the fraction n/d as one.
Mul(a, b) == TruncDiv(a * b, Unit)
Frac(n, d) == TruncDiv(n * Unit, d)

\* fade(t) = t * t * t * (t * (t * 6 - 15) + 10)
Fade(t) == Mul(Mul(Mul(t, t), t), Mul(t, t * 6 - 15 * Unit) + 10 * Unit)

\* lerp(t, a, b) = a + t * (b - a)
Lerp(t, a, b) == a + Mul(t, b - a)

\* grad(hash, x, y, z)
Grad(hash, x, y, z) ==
  LET h == hash % 16
      u == IF h < 8 THEN x ELSE y
      v == IF h < 4 THEN y ELSE IF h = 12 \/ h = 14 THEN x ELSE z
  IN (IF h % 2 = 0 THEN u ELSE -u) + (IF (h \div 2) % 2 = 0 THEN v ELSE -v)

\* noise(x, y, z) with permutation table p (p[n + 1] is permutation[n])
Noise(p, x, y, z) ==
  LET X == FloorInt(x) % 256
      Y == FloorInt(y) % 256
      Z == FloorInt(z) % 256
      xf == x - FromInt(FloorInt(x))
      yf == y - FromInt(FloorInt(y))
      zf == z - FromInt(FloorInt(z))
      u == Fade(xf)
      v == Fade(yf)
      w == Fade(zf)
      A == p[X + 1] + Y
      AA == p[A + 1] + Z
      AB == p[A + 2] + Z
      B == p[X + 2] + Y
      BA == p[B + 1] + Z
      BB == p[B + 2] + Z
  IN Lerp(w,
       Lerp(v,
         Lerp(u, Grad(p[AA + 1], xf, yf, zf), Grad(p[BA + 1], xf - Unit, yf, zf)),
         Lerp(u, Grad(p[AB + 1], xf, yf - Unit, zf), Grad(p[BB + 1], xf - Unit, yf - Unit, zf))),
       Lerp(v,
         Lerp(u, Grad(p[AA + 2], xf, yf, zf - Unit), Grad(p[BA + 2], xf - Unit, yf, zf - Unit)),
         Lerp(u, Grad(p[AB + 2], xf, yf - Unit, zf - Unit),
                 Grad(p[BB + 2], xf - Unit, yf - Unit, zf - Unit))))

-----------------------------------------------------------------------------
(* WorldGenerator.                                                         *)

\* self.terrain_scales
TerrainScales ==
  << [scale |-> 30,  weight |-> Unit],
     [scale |-> 100, weight |-> Frac(8, 10)],
     [scale |-> 50,  weight |-> Frac(4, 10)],
     [scale |-> 25,  weight |-> Frac(2, 10)],
     [scale |-> 10,  weight |-> Frac(1, 10)] >>

\* The float that is not a number (0.0 / 0.0): every comparison with it is false.
NaN == -1073741824

Less(a, b) == a # NaN /\ b # NaN /\ a < b
AtLeast(a, b) == a # NaN /\ b # NaN /\ a >= b

\* The cell (x, y) of an N x N array, as an index of its sequence of cells.
CellIndex(N, x, y) == y * N + x + 1

\* One pass of the innermost loop body of generate_chunk: octave t, cell
\* (x, y). acc = [grid, rng, height] is the lattice, the global generator
\* and the height accumulator before the pass; the result is them after it.
Octave(g, x_offset, y_offset, acc, t, x, y) ==
  LET scale == TerrainScales[t].scale
      weight == TerrainScales[t].weight
      world_x == x + x_offset * g.chunk_size
      world_y == y + y_offset * g.chunk_size
      perlin_val ==
        Mul(Mul(Noise(g.permutation, Frac(world_x, scale), Frac(world_y, scale), 0) + Unit,
                Frac(1, 2)), Frac(7, 10))
        + Mul(Mul(Noise(g.permutation, Frac(world_x * 10, scale * 3),
                        Frac(world_y * 10, scale * 3), 0) + Unit,
                  Frac(1, 2)), Frac(3, 10))
      sm == SmoothNoiseOf([grid |-> acc.grid, rng |-> acc.rng],
                          Frac(world_x, scale), Frac(world_y, scale))
      value_val == Mul(sm.val + Unit, Frac(1, 2))
      c == CellIndex(g.chunk_size, x, y)
  IN [grid |-> sm.grid, rng |-> sm.rng,
      height |-> [acc.height EXCEPT ![c] =
                    @ + Mul(Mul(perlin_val, Frac(9, 10)) + Mul(value_val, Frac(1, 10)), weight)]]

RECURSIVE Octaves(_, _, _, _, _, _)
\* The passes lo..hi (counted from 0) of the three nested loops of
\* generate_chunk, in their order: octaves outermost, then rows y, then
\* columns x (the lower half is run first, then the upper half on its result).
Octaves(g, x_offset, y_offset, acc, lo, hi) ==
  LET N == g.chunk_size IN
  IF hi < lo THEN acc
  ELSE IF hi = lo
  THEN Octave(g, x_offset, y_offset, acc, lo \div (N * N) + 1, lo % N, (lo % (N * N)) \div N)
  ELSE LET mid == (hi + lo) \div 2
           lower == Octaves(g, x_offset, y_offset, acc, lo, mid)
       IN IF lower.rng >= 0 THEN Octaves(g, x_offset, y_offset, lower, mid + 1, hi)
          ELSE lower

RECURSIVE SeqMin(_, _)
SeqMin(q, n) == IF n = 1 THEN q[1]
                ELSE LET m == SeqMin(q, n - 1) IN IF q[n] < m THEN q[n] ELSE m

RECURSIVE SeqMax(_, _)
SeqMax(q, n) == IF n = 1 THEN q[1]
                ELSE LET m == SeqMax(q, n - 1) IN IF q[n] > m THEN q[n] ELSE m

\* (h - min) / (max - min); a zero range makes it 0.0 / 0.0
Normalize(h, lo, hi) == IF hi = lo THEN NaN ELSE TruncDiv((h - lo) * Unit, hi - lo)

Pow5(r) == Mul(Mul(Mul(Mul(r, r), r), r), r)

RECURSIVE Root5In(_, _, _)
\* The largest r in lo..hi whose fifth power is at most a.
Root5In(a, lo, hi) ==
  IF lo = hi THEN lo
  ELSE LET mid == (lo + hi + 1) \div 2
       IN IF Pow5(mid) <= a THEN Root5In(a, mid, hi) ELSE Root5In(a, lo, mid - 1)

\* np.power(h, 1.4) for h in [0, 1], as h * (h * h) ^ (1/5)
Pow14(h) == IF h = NaN THEN NaN ELSE Mul(h, Root5In(Mul(h, h), 0, Unit))

\* h * 1.3 - 0.15
Rescale(h) == IF h = NaN THEN NaN ELSE Mul(h, Frac(13, 10)) - Frac(15, 100)

\* np.clip(h, 0, 1)
Clip(h) == IF h = NaN THEN NaN ELSE IF h < 0 THEN 0 ELSE IF h > Unit THEN Unit ELSE h

\* The shaping of the accumulated height map: normalize, power, rescale, clip.
ShapedHeights(height) ==
  LET n == Len(height)
      lo == SeqMin(height, n)
      hi == SeqMax(height, n)
  IN [c \in 1..n |-> Clip(Rescale(Pow14(Normalize(height[c], lo, hi))))]

\* _generate_biomes for one cell: the five masked assignments, in their order.
BiomeOf(h, water, water_level) ==
  LET b0 == 0
      b1 == IF water THEN 0 ELSE b0
      b2 == IF ~water /\ Less(h, water_level + Frac(8, 100)) THEN 1 ELSE b1
      b3 == IF ~water /\ AtLeast(h, water_level + Frac(8, 100)) /\ Less(h, Frac(65, 100))
            THEN 2 ELSE b2
      b4 == IF ~water /\ AtLeast(h, Frac(65, 100)) /\ Less(h, Frac(85, 100)) THEN 3 ELSE b3
      b5 == IF ~water /\ AtLeast(h, Frac(85, 100)) THEN 4 ELSE b4
  IN b5

\* generate_chunk(x_offset, y_offset) on generator g with the global
\* generator in state s: the chunk returned, and the lattice and generator
\* state left behind.
Generated(g, s, x_offset, y_offset) ==
  LET N == g.chunk_size
      acc == Octaves(g, x_offset, y_offset,
                     [grid |-> g.grid, rng |-> s, height |-> [c \in 1..(N * N) |-> 0]],
                     0, Len(TerrainScales) * N * N - 1)
      height_map == ShapedHeights(acc.height)
      water_mask == [c \in 1..(N * N) |-> Less(height_map[c], g.water_level)]
  IN [grid |-> acc.grid, rng |-> acc.rng,
      chunk |-> [height |-> height_map,
                 water |-> water_mask,
                 biome |-> [c \in 1..(N * N) |->
                              BiomeOf(height_map[c], water_mask[c], g.water_level)]]]

\* The WorldGenerator objects of a run and what they are built with.
WorldNames == {1, 2}
MaxChunkSize == 2
ChunkSizes == 1..MaxChunkSize
WorldSeeds == {0}
WaterLevels == {Frac(4, 10)}
Offsets == {<<0, 0>>, <<1, 0>>}

\* generate_chunk calls made on one generator, at most.
MaxGenerate == 1

\* WorldGenerator(chunk_size, seed, water_level) bound to name i: PerlinNoise()
\* shuffles with the global generator as it stands, then ValueNoise(seed)
\* seeds it.
NewWorldGenerator(i, chunk_size, seed, water_level) ==
  /\ i \notin DOMAIN wg
  /\ rng' = SeedState(seed)
  /\ wg' = [k \in DOMAIN wg \cup {i} |->
              IF k = i
              THEN [chunk_size |-> chunk_size, water_level |-> water_level, seed |-> seed,
                    permutation |-> PerlinTable(rng).permutation,
                    grid |-> <<>>, results |-> <<>>, biomes |-> <<>>]
              ELSE wg[k]]
  /\ UNCHANGED <<draws, vn, cache_vars>>

\* a call of generate_chunk(x_offset, y_offset) on the generator named i
GenerateChunk(i, x_offset, y_offset) ==
  /\ i \in DOMAIN wg
  /\ Len(wg[i].results) < MaxGenerate
  /\ LET r == Generated(wg[i], rng, x_offset, y_offset) IN
       /\ rng' = r.rng
       /\ wg' = [wg EXCEPT ![i].grid = r.grid,
                           ![i].results = Append(@, [x_offset |-> x_offset,
                                                     y_offset |-> y_offset,
                                                     chunk |-> r.chunk])]
  /\ UNCHANGED <<draws, vn, cache_vars>>

NextWorld ==
  \/ RandomDraw
  \/ \E i \in WorldNames : \E n \in ChunkSizes : \E s \in WorldSeeds : \E l \in WaterLevels :
       NewWorldGenerator(i, n, s, l)
  \/ \E i \in WorldNames : \E o \in Offsets : GenerateChunk(i, o[1], o[2])

SpecWorld == InitNoise /\ [][NextWorld]_vars

-----------------------------------------------------------------------------
(* Claims about WorldGenerator.                                            *)

\* C10: two freshly constructed WorldGenerator objects with the same
\* chunk_size, seed and water_level return identical chunks from
\* generate_chunk(0, 0), whatever was drawn from the random module before
\* either was constructed.
C10_SameSeedSameChunk ==
  \A i \in DOMAIN wg : \A j \in DOMAIN wg :
    ( /\ wg[i].chunk_size = wg[j].chunk_size
      /\ wg[i].seed = wg[j].seed
      /\ wg[i].water_level = wg[j].water_level
      /\ wg[i].results # <<>> /\ wg[j].results # <<>>
      /\ wg[i].results[1].x_offset = 0 /\ wg[i].results[1].y_offset = 0
      /\ wg[j].results[1].x_offset = 0 /\ wg[j].results[1].y_offset = 0 )
    => wg[i].results[1].chunk = wg[j].results[1].chunk

\* C13: every cell of a height grid returned by generate_chunk is a defined
\* number in [0, 1], for every positive chunk_size; a chunk whose accumulated
\* heights are all equal (always so for chunk_size = 1) is no exception.
C13_HeightsDefinedInRange ==
  \A i \in DOMAIN wg : \A n \in 1..Len(wg[i].results) :
    \A c \in 1..Len(wg[i].results[n].chunk.height) :
      /\ wg[i].results[n].chunk.height[c] # NaN
      /\ wg[i].results[n].chunk.height[c] \in 0..Unit

-----------------------------------------------------------------------------
(* _generate_biomes on its own.                                            *)

\* Heights and water levels in [0, 1] the biome maps are computed for:
\* multiples of 1/BiomeSteps and of 1/WaterSteps.
BiomeSteps == 20
WaterSteps == 10
BiomeHeights == {Frac(n, BiomeSteps) : n \in 0..BiomeSteps}
BiomeWaterLevels == {Frac(n, WaterSteps) : n \in 0..WaterSteps}
BiomeNames == {1}

\* _generate_biomes calls made on one generator, at most.
MaxBiomeCalls == 1

\* height_map < self.water_level, cell by cell
WaterMask(height_map, water_level) ==
  [c \in 1..Len(height_map) |-> Less(height_map[c], water_level)]

\* a call of _generate_biomes(height_map, water_mask) on the generator named i
GenerateBiomes(i, height_map, water_mask) ==
  /\ i \in DOMAIN wg
  /\ Len(wg[i].biomes) < MaxBiomeCalls
  /\ wg' = [wg EXCEPT ![i].biomes =
              Append(@, [height |-> height_map, water |-> water_mask,
                         biome |-> [c \in 1..Len(height_map) |->
                                      BiomeOf(height_map[c], water_mask[c],
                                              wg[i].water_level)]])]
  /\ UNCHANGED <<rng, draws, vn, cache_vars>>

NextBiome ==
  \/ \E i \in BiomeNames : \E s \in WorldSeeds : \E l \in BiomeWaterLevels :
       NewWorldGenerator(i, 1, s, l)
  \/ \E i \in BiomeNames : \E h \in BiomeHeights :
       GenerateBiomes(i, <<h>>, WaterMask(<<h>>, wg[i].water_level))

SpecBiome == InitNoise /\ [][NextBiome]_vars

\* The biome of the first rule of the claimed priority order that matches.
FirstMatchingRule(h, water_level) ==
  IF h < water_level THEN 0
  ELSE IF h < water_level + Frac(8, 100) THEN 1
  ELSE IF h < Frac(65, 100) THEN 2
  ELSE IF h < Frac(85, 100) THEN 3
  ELSE 4

\* C12: for every height and water level in [0, 1], _generate_biomes (with
\* the water mask height < water_level) gives each cell the biome of the
\* first matching rule: Ocean, Beach, Plains, Forest, else Mountains; a
\* non-water cell below water_level + 0.08 is Beach also when that threshold
\* lies above 0.65 or 0.85.
C12_FirstMatchingRuleWins ==
  \A i \in DOMAIN wg : \A n \in 1..Len(wg[i].biomes) :
    \A c \in 1..Len(wg[i].biomes[n].height) :
      wg[i].biomes[n].biome[c] =
        FirstMatchingRule(wg[i].biomes[n].height[c], wg[i].water_level)

====
